---- MODULE Spec2Model ----
(***************************************************************************)
(* The authenticated request pipeline of frontend/src/lib/api.ts:          *)
(* ApiService.getAuthToken, ApiService.makeRequest and the nine public     *)
(* methods, run against an identity provider (auth.currentUser,            *)
(* user.getIdToken) and a transport (fetch, response.json) that are the    *)
(* environment.  Every await of the source is a suspension point, so a     *)
(* call is a small process: Invoke, IdTokenSettle, IssueRequest,           *)
(* FetchSettle, JsonSettle.                                                *)
(***************************************************************************)
EXTENDS Integers, Sequences, FiniteSets, TLC

VARIABLES
    currentUser,   \* auth.currentUser: a user of Users, or NoUser
    idToken,       \* the token the provider holds for each user
    transport,     \* what fetch does: a response (status, body text) or a network error
    baseURL,       \* this.baseURL, set by the constructor and never written again
    pending,       \* the invocation the application makes as call c, or NoCall
    pc,            \* where call c is suspended
    user,          \* getAuthToken's local `user` of call c
    token,         \* makeRequest's local `token` of call c
    tokenSource,   \* how call c's token acquisition ended (history)
    providerGave,  \* the token getIdToken resolved with for call c, if it did (history)
    sent,          \* the requests call c has handed to fetch, in order
    response,      \* makeRequest's local `response` of call c
    result,        \* the settlement of the promise call c returned
    log            \* the console.error entries of call c, in order

vars == <<currentUser, idToken, transport, baseURL, pending, pc, user, token,
          tokenSource, providerGave, sent, response, result, log>>

\* The number of calls that may be in flight together.
MaxCalls == 2

Calls == 1..MaxCalls

-----------------------------------------------------------------------------
(* JavaScript values: undefined, null, strings, numbers (integers, kept as *)
(* their decimal literal), booleans, objects and arrays.  One record shape *)
(* for all; an object or array holds its members in property order, an     *)
(* array's keys being its indices.                                         *)

Undefined == [k |-> "undefined", v |-> "", f |-> <<>>]
JNull == [k |-> "null", v |-> "", f |-> <<>>]
JStr(s) == [k |-> "string", v |-> s, f |-> <<>>]
JNum(n) == [k |-> "number", v |-> ToString(n), f |-> <<>>]
JBool(b) == [k |-> "boolean", v |-> IF b THEN "true" ELSE "false", f |-> <<>>]
JObj(members) == [k |-> "object", v |-> "", f |-> members]
Member(key, val) == [key |-> key, val |-> val]
JArr(elements) ==
    [k |-> "array", v |-> "",
     f |-> [i \in 1..Len(elements) |-> Member(ToString(i - 1), elements[i])]]

\* JavaScript truthiness, as `if (token)` and `data.message || ...` use it.
Truthy(x) ==
    CASE x.k = "undefined" -> FALSE
      [] x.k = "null" -> FALSE
      [] x.k = "string" -> x.v # ""
      [] x.k = "number" -> x.v # "0"
      [] x.k = "boolean" -> x.v = "true"
      [] OTHER -> TRUE

\* Whether an object or array has an own member of that key.
HasOwn(x, name) == \E i \in 1..Len(x.f) : x.f[i].key = name

\* The outcome of a string conversion: the string, or a TypeError thrown.
StringIs(str) == [threw |-> FALSE, value |-> str]
NoString == [threw |-> TRUE, value |-> ""]

\* String conversion, as a template literal `${x}` and new Error(x)
\* perform it.  An object is "[object Object]" by the inherited toString;
\* an own member toString hides it and, being no function (these values
\* hold none), leaves the object without a primitive value: a TypeError.
\* An array is its elements joined by commas, null and undefined elements
\* being empty, and throws when the conversion of an element throws.
RECURSIVE TemplateString(_)
RECURSIVE JoinElements(_, _)
JoinElements(members, i) ==
    IF i > Len(members) THEN StringIs("")
    ELSE LET head == IF members[i].val.k \in {"undefined", "null"}
                     THEN StringIs("")
                     ELSE TemplateString(members[i].val)
             rest == JoinElements(members, i + 1)
         IN  IF head.threw \/ rest.threw THEN NoString
             ELSE StringIs((IF i = 1 THEN "" ELSE ",") \o head.value \o rest.value)

TemplateString(x) ==
    CASE x.k = "undefined" -> StringIs("undefined")
      [] x.k = "null" -> StringIs("null")
      [] x.k = "object" ->
            IF HasOwn(x, "toString") THEN NoString ELSE StringIs("[object Object]")
      [] x.k = "array" -> JoinElements(x.f, 1)
      [] OTHER -> StringIs(x.v)

\* Property read x.name: throws a TypeError on undefined and null; yields
\* the length of a string or an array, the last member of that key of an
\* object or array, and undefined otherwise.
RECURSIVE Lookup(_, _, _)
Lookup(members, name, i) ==
    IF i = 0 THEN Undefined
    ELSE IF members[i].key = name THEN members[i].val
    ELSE Lookup(members, name, i - 1)

GetProp(x, name) ==
    IF x.k \in {"undefined", "null"}
    THEN [threw |-> TRUE, value |-> Undefined]
    ELSE IF name = "length" /\ x.k = "string"
    THEN [threw |-> FALSE, value |-> JNum(Len(x.v))]
    ELSE IF name = "length" /\ x.k = "array"
    THEN [threw |-> FALSE, value |-> JNum(Len(x.f))]
    ELSE [threw |-> FALSE, value |-> Lookup(x.f, name, Len(x.f))]

\* The keys JavaScript treats as array indices, which an object lists
\* first and in ascending order: the canonical decimal literals of the
\* integers 0 .. 4294967294.
Digits == {"0", "1", "2", "3", "4", "5", "6", "7", "8", "9"}
DigitValue(c) == CHOOSE d \in 0..9 : ToString(d) = c

RECURSIVE AllDigits(_)
AllDigits(str) ==
    Len(str) = 0 \/ (Head(str) \in Digits /\ AllDigits(Tail(str)))

\* a < b for two digit strings of one length.
RECURSIVE DigitsLess(_, _)
DigitsLess(a, b) ==
    IF Len(a) = 0 THEN FALSE
    ELSE IF Head(a) = Head(b) THEN DigitsLess(Tail(a), Tail(b))
    ELSE DigitValue(Head(a)) < DigitValue(Head(b))

\* a < b for two canonical decimal literals.
IndexLess(a, b) ==
    \/ Len(a) < Len(b)
    \/ Len(a) = Len(b) /\ DigitsLess(a, b)

IsIndexKey(key) ==
    /\ Len(key) >= 1
    /\ AllDigits(key)
    /\ Head(key) # "0" \/ Len(key) = 1
    /\ ~IndexLess("4294967294", key)

\* Whether a member of key `key` comes before member m in property order,
\* when it is added after m.
ComesBefore(key, m) ==
    /\ IsIndexKey(key)
    /\ IsIndexKey(m.key) => IndexLess(key, m.key)

\* Assignment obj[key] = val: a key already there keeps its place and
\* takes the new value; a new index key goes among the index keys in
\* ascending order, any other new key goes last.
SetMember(members, key, val) ==
    IF \E i \in 1..Len(members) : members[i].key = key
    THEN [i \in 1..Len(members) |->
             IF members[i].key = key THEN Member(key, val) ELSE members[i]]
    ELSE LET before == SelectSeq(members, LAMBDA m : ~ComesBefore(key, m))
             after == SelectSeq(members, LAMBDA m : ComesBefore(key, m))
         IN  before \o <<Member(key, val)>> \o after

-----------------------------------------------------------------------------
(* JSON text is a sequence of lexical tokens: punctuation, string          *)
(* literals, number literals (one token N(n) for the integer n) and bare   *)
(* words (true, false, null, or anything else, which is no JSON).          *)

P(c) == [t |-> "punct", v |-> c]
S(s) == [t |-> "string", v |-> s]
N(n) == [t |-> "number", v |-> ToString(n)]
W(w) == [t |-> "word", v |-> w]

\* JSON.stringify of a value that is not undefined: an object member whose
\* value is undefined is left out, an undefined array element becomes null.
RECURSIVE ValueText(_)
RECURSIVE MembersText(_, _, _)
RECURSIVE ElementsText(_, _)

ScalarText(x) ==
    CASE x.k = "string" -> <<S(x.v)>>
      [] x.k = "number" -> <<[t |-> "number", v |-> x.v]>>
      [] x.k = "boolean" -> <<W(x.v)>>
      [] OTHER -> <<W("null")>>

MembersText(members, i, first) ==
    IF i > Len(members) THEN <<>>
    ELSE IF members[i].val.k = "undefined"
         THEN MembersText(members, i + 1, first)
         ELSE (IF first THEN <<>> ELSE <<P(",")>>)
              \o <<S(members[i].key), P(":")>>
              \o ValueText(members[i].val)
              \o MembersText(members, i + 1, FALSE)

ElementsText(members, i) ==
    IF i > Len(members) THEN <<>>
    ELSE (IF i = 1 THEN <<>> ELSE <<P(",")>>)
         \o ValueText(members[i].val)
         \o ElementsText(members, i + 1)

ValueText(x) ==
    CASE x.k = "object" -> <<P("{")>> \o MembersText(x.f, 1, TRUE) \o <<P("}")>>
      [] x.k = "array" -> <<P("[")>> \o ElementsText(x.f, 1) \o <<P("]")>>
      [] OTHER -> ScalarText(x)

JSONstringify(x) == ValueText(x)

IsScalarToken(tok) ==
    \/ tok.t = "string"
    \/ tok.t = "number"
    \/ tok.t = "word" /\ tok.v \in {"true", "false", "null"}

ScalarValue(tok) ==
    IF tok.t = "string" THEN JStr(tok.v)
    ELSE IF tok.t = "number" THEN [k |-> "number", v |-> tok.v, f |-> <<>>]
    ELSE IF tok.v = "null" THEN JNull
    ELSE JBool(tok.v = "true")

ParseFail == [ok |-> FALSE, value |-> Undefined]
ParseOk(x) == [ok |-> TRUE, value |-> x]

\* A partial parse: the value read and the index of the next token.
NoValue == [ok |-> FALSE, value |-> Undefined, next |-> 0]
ValueAt(x, next) == [ok |-> TRUE, value |-> x, next |-> next]

TokenIs(text, i, tok) == i <= Len(text) /\ text[i] = tok

RECURSIVE ParseValue(_, _)
RECURSIVE ParseMembers(_, _, _)
RECURSIVE ParseElements(_, _, _)

\* The members of an object from token i on: key : value, then , or }.
ParseMembers(text, i, acc) ==
    IF ~(i + 1 <= Len(text) /\ text[i].t = "string" /\ text[i + 1] = P(":"))
    THEN NoValue
    ELSE LET r == ParseValue(text, i + 2)
         IN  IF ~r.ok THEN NoValue
             ELSE LET acc2 == SetMember(acc, text[i].v, r.value)
                  IN  IF TokenIs(text, r.next, P("}"))
                      THEN ValueAt(JObj(acc2), r.next + 1)
                      ELSE IF TokenIs(text, r.next, P(","))
                      THEN ParseMembers(text, r.next + 1, acc2)
                      ELSE NoValue

\* The elements of an array from token i on: value, then , or ].
ParseElements(text, i, acc) ==
    LET r == ParseValue(text, i)
    IN  IF ~r.ok THEN NoValue
        ELSE LET acc2 == Append(acc, r.value)
             IN  IF TokenIs(text, r.next, P("]"))
                 THEN ValueAt(JArr(acc2), r.next + 1)
                 ELSE IF TokenIs(text, r.next, P(","))
                 THEN ParseElements(text, r.next + 1, acc2)
                 ELSE NoValue

\* One JSON value from token i on.
ParseValue(text, i) ==
    IF i > Len(text) THEN NoValue
    ELSE IF text[i] = P("{")
    THEN (IF TokenIs(text, i + 1, P("}"))
          THEN ValueAt(JObj(<<>>), i + 2)
          ELSE ParseMembers(text, i + 1, <<>>))
    ELSE IF text[i] = P("[")
    THEN (IF TokenIs(text, i + 1, P("]"))
          THEN ValueAt(JArr(<<>>), i + 2)
          ELSE ParseElements(text, i + 1, <<>>))
    ELSE IF IsScalarToken(text[i])
    THEN ValueAt(ScalarValue(text[i]), i + 1)
    ELSE NoValue

\* JSON.parse, which response.json() applies to the body text: one value
\* and nothing after it.
JSONparse(text) ==
    LET r == ParseValue(text, 1)
    IN  IF r.ok /\ r.next = Len(text) + 1 THEN ParseOk(r.value) ELSE ParseFail

-----------------------------------------------------------------------------
(* The client: configuration, the public methods and makeRequest.          *)

\* The module constant API_BASE_URL, from process.env.NEXT_PUBLIC_API_URL
\* (undefined when the variable is not set): the default when it is falsy.
API_BASE_URL(envValue) ==
    IF Truthy(envValue) THEN envValue.v ELSE "http://localhost:8000"

\* An optional field of RequestInit: absent, or one value.
Absent == <<>>
Given(x) == <<x>>

\* No header at all: what spreading an absent options.headers adds.
NoHeaders == [h \in {} |-> ""]

\* The two arguments a public method passes to makeRequest; no public
\* method gives options.headers.
MakeRequestArgs(endpoint, method, body) ==
    [endpoint |-> endpoint,
     options |-> [method |-> method, body |-> body, headers |-> NoHeaders]]

healthCheck ==
    MakeRequestArgs("/health", Absent, Absent)

signUp(data) ==
    MakeRequestArgs("/api/auth/signup", Given("POST"), Given(JSONstringify(data)))

createSocialUserProfile(data) ==
    MakeRequestArgs("/api/auth/create-social-profile", Given("POST"),
                    Given(JSONstringify(data)))

verifyToken ==
    MakeRequestArgs("/api/auth/verify-token", Given("POST"), Absent)

resetPassword(email) ==
    MakeRequestArgs("/api/auth/reset-password", Given("POST"),
                    Given(JSONstringify(JObj(<<Member("email", email)>>))))

getProfile ==
    MakeRequestArgs("/api/auth/profile", Absent, Absent)

\* updateProfile sending PUT instead of PATCH.
updateProfilePut(data) ==
    MakeRequestArgs("/api/auth/profile", Given("PUT"), Given(JSONstringify(data)))

updateProfile(data) ==
    MakeRequestArgs("/api/auth/profile", Given("PATCH"), Given(JSONstringify(data)))

refreshToken ==
    MakeRequestArgs("/api/auth/refresh-token", Given("POST"), Absent)

deleteAccount ==
    MakeRequestArgs("/api/auth/account", Given("DELETE"), Absent)

\* An invocation is a public method's name and its argument (undefined for
\* the methods that take none).
PublicCall(inv) ==
    CASE inv.op = "healthCheck" -> healthCheck
      [] inv.op = "signUp" -> signUp(inv.arg)
      [] inv.op = "createSocialUserProfile" -> createSocialUserProfile(inv.arg)
      [] inv.op = "verifyToken" -> verifyToken
      [] inv.op = "resetPassword" -> resetPassword(inv.arg)
      [] inv.op = "getProfile" -> getProfile
      [] inv.op = "updateProfile" -> updateProfile(inv.arg)
      [] inv.op = "refreshToken" -> refreshToken
      [] inv.op = "deleteAccount" -> deleteAccount

\* getAuthToken's results: null without a user, the token getIdToken
\* resolved with, null (after a log entry) when getIdToken threw.
GetAuthTokenNoUser == JNull
GetAuthTokenResolved(tok) == JStr(tok)
GetAuthTokenCaught == [value |-> JNull, log |-> <<"Error getting auth token:">>]

ContentTypeHeader == ("Content-Type" :> "application/json")

\* Headers built without the `if (token)` test.
BuildHeadersAlways(optionHeaders, tok) ==
    ("Authorization" :> ("Bearer " \o TemplateString(tok).value))
    @@ optionHeaders @@ ContentTypeHeader

\* Headers carrying the bare token, without the "Bearer " scheme.
BuildHeadersRawToken(optionHeaders, tok) ==
    IF Truthy(tok)
    THEN ("Authorization" :> TemplateString(tok).value) @@ optionHeaders @@ ContentTypeHeader
    ELSE optionHeaders @@ ContentTypeHeader

\* makeRequest's headers: Content-Type, overridden by the options' headers,
\* overridden by Authorization when the token is truthy (a truthy token is
\* a non-empty string, whose string conversion is itself).
BuildHeaders(optionHeaders, tok) ==
    IF Truthy(tok)
    THEN ("Authorization" :> ("Bearer " \o TemplateString(tok).value))
         @@ optionHeaders @@ ContentTypeHeader
    ELSE optionHeaders @@ ContentTypeHeader

\* The request fetch(url, {...options, headers}) issues; fetch's method is
\* GET when the init names none.
FetchRequest(endpoint, options, tok) ==
    [url |-> baseURL \o endpoint,
     method |-> IF options.method = Absent THEN "GET" ELSE options.method[1],
     body |-> options.body,
     headers |-> BuildHeaders(options.headers, tok)]

\* A status test that lets every status from 200 to 399 through.
ResponseOkBelow400(status) == status >= 200 /\ status <= 399

\* response.ok
ResponseOk(status) == status >= 200 /\ status <= 299

Error(name, message) == [name |-> name, message |-> message]
NetworkError == Error("TypeError", "Failed to fetch")
JsonSyntaxError == Error("SyntaxError", "Unexpected token in JSON")
NullPropertyError == Error("TypeError", "Cannot read properties of null (reading 'message')")
NoPrimitiveError == Error("TypeError", "Cannot convert object to primitive value")

NoResult == [state |-> "pending", value |-> Undefined, error |-> Error("", "")]
Resolved(x) == [state |-> "resolved", value |-> x, error |-> Error("", "")]
Rejected(e) == [state |-> "rejected", value |-> Undefined, error |-> e]

\* An error built from the status alone, whatever the envelope says.
HttpErrorStatusOnly(data, status) ==
    Error("Error", "HTTP error! status: " \o ToString(status))

\* The error `throw new Error(data.message || `HTTP error! status: ...`)`
\* raises; reading data.message itself throws when data is null, and so
\* does new Error of a message that has no string conversion.
HttpError(data, status) ==
    LET m == GetProp(data, "message")
        str == TemplateString(m.value)
    IN  IF m.threw THEN NullPropertyError
        ELSE IF ~Truthy(m.value)
        THEN Error("Error", "HTTP error! status: " \o ToString(status))
        ELSE IF str.threw THEN NoPrimitiveError
        ELSE Error("Error", str.value)

\* A try block that also throws when the envelope's success flag is false.
AfterJsonChecksSuccess(status, text) ==
    LET parsed == JSONparse(text)
        flag == GetProp(parsed.value, "success")
    IN  IF ~parsed.ok THEN [threw |-> TRUE, error |-> JsonSyntaxError, value |-> Undefined]
        ELSE IF ~ResponseOk(status) \/ flag.threw \/ ~Truthy(flag.value)
        THEN [threw |-> TRUE, error |-> HttpError(parsed.value, status), value |-> Undefined]
        ELSE [threw |-> FALSE, error |-> Error("", ""), value |-> parsed.value]

\* A try block that tests the status first and accepts a successful
\* response without a body.
AfterJsonEmptyBodyOk(status, text) ==
    LET parsed == JSONparse(text)
    IN  IF ResponseOk(status) /\ Len(text) = 0
        THEN [threw |-> FALSE, error |-> Error("", ""), value |-> Undefined]
        ELSE IF ~parsed.ok
        THEN [threw |-> TRUE, error |-> JsonSyntaxError, value |-> Undefined]
        ELSE IF ~ResponseOk(status)
        THEN [threw |-> TRUE, error |-> HttpError(parsed.value, status), value |-> Undefined]
        ELSE [threw |-> FALSE, error |-> Error("", ""), value |-> parsed.value]

\* makeRequest's try block from `await response.json()` on: what is thrown
\* into the catch block, or what is returned.
AfterJson(status, text) ==
    LET parsed == JSONparse(text)
    IN  IF ~parsed.ok THEN [threw |-> TRUE, error |-> JsonSyntaxError, value |-> Undefined]
        ELSE IF ~ResponseOk(status)
        THEN [threw |-> TRUE, error |-> HttpError(parsed.value, status), value |-> Undefined]
        ELSE [threw |-> FALSE, error |-> Error("", ""), value |-> parsed.value]

\* A catch block that logs and tries the request again.
CatchRetry(endpoint, e) ==
    [pc |-> "awaitAuthToken",
     result |-> NoResult,
     log |-> <<"API request failed for " \o endpoint \o ":">>]

\* makeRequest's catch block: one log entry, then the error is rethrown.
Catch(endpoint, e) ==
    [pc |-> "done",
     result |-> Rejected(e),
     log |-> <<"API request failed for " \o endpoint \o ":">>]

-----------------------------------------------------------------------------
(* The environment: the identity provider, the transport, the callers.     *)

\* What process.env.NEXT_PUBLIC_API_URL may hold.
EnvValues == {Undefined, JStr(""), JStr("https://api.example.com")}

NoUser == "none"
Users == {"u1"}
Tokens == {"", "tokenA", "tokenB"}

NoCall == [op |-> "none", arg |-> Undefined]
Invocation(op, arg) == [op |-> op, arg |-> arg]

SignUpData(displayName) ==
    JObj(<<Member("email", JStr("a@b.c")), Member("password", JStr("pw")),
           Member("displayName", displayName)>>)

SocialProfile ==
    JObj(<<Member("uid", JStr("u1")), Member("email", JStr("a@b.c")),
           Member("displayName", JStr("D")), Member("photoURL", JStr("p.png")),
           Member("provider", JStr("google"))>>)

FirstNameOnly == JObj(<<Member("firstName", JStr("A"))>>)

SparseProfile ==
    JObj(<<Member("displayName", JStr("D")), Member("phoneNumber", Undefined),
           Member("lastName", JStr("L"))>>)

AllInvocations ==
    {Invocation(op, Undefined) :
        op \in {"healthCheck", "verifyToken", "getProfile", "refreshToken",
                "deleteAccount"}}
    \cup {Invocation("signUp", SignUpData(d)) : d \in {JStr("D"), Undefined}}
    \cup {Invocation("createSocialUserProfile", SocialProfile)}
    \cup {Invocation("resetPassword", JStr("a@b.c"))}
    \cup {Invocation("updateProfile", d) : d \in {FirstNameOnly, SparseProfile, JObj(<<>>)}}

ConcInvocations == {Invocation("updateProfile", FirstNameOnly)}

\* Response envelopes {success, message, data?, error?, timestamp}.
Envelope(success, message, rest) ==
    JObj(<<Member("success", JBool(success)), Member("message", JStr(message))>>
         \o rest \o <<Member("timestamp", JStr("2025-01-01T00:00:00Z"))>>)

\* A User as the profile endpoints return it: nested objects, an array, a
\* number.
UserData ==
    JObj(<<Member("uid", JStr("u1")), Member("emailVerified", JBool(TRUE)),
           Member("profile", JObj(<<Member("firstName", JStr("A"))>>)),
           Member("roles", JArr(<<JStr("user")>>)),
           Member("loginCount", JNum(3))>>)

Envelopes ==
    {Envelope(TRUE, "ok", <<Member("data", UserData)>>),
     Envelope(FALSE, "invalid token", <<Member("error", JStr("E_AUTH"))>>),
     Envelope(FALSE, "", <<>>),
     Envelope(TRUE, "", <<Member("data", JNull)>>)}

Statuses == {200, 204, 304, 401, 500}

Bodies ==
    {JSONstringify(e) : e \in Envelopes}
    \cup {<<>>,                                  \* no body at all
          <<W("<html>")>>,                       \* not JSON
          <<P("["), N(1), P("]")>>,              \* a JSON array of a number
          <<P("{"), S("message"), P(":"), P("{"), S("toString"), P(":"), N(1),
            P("}"), P("}")>>,                    \* a message with no string conversion
          <<P("{"), S("message"), P(":")>>,      \* truncated JSON
          <<W("null")>>,                         \* the JSON value null
          <<P("{"), S("success"), P(":"), W("false"), P("}")>>}  \* no message member

HttpResponse(status, body) == [kind |-> "response", status |-> status, body |-> body]
FetchFails == [kind |-> "networkError", status |-> 0, body |-> <<>>]
NoResponse == [kind |-> "none", status |-> 0, body |-> <<>>]

AllTransports == {HttpResponse(s, b) : s \in Statuses, b \in Bodies} \cup {FetchFails}

ConcTransports ==
    {HttpResponse(200, JSONstringify(Envelope(TRUE, "ok", <<>>))),
     HttpResponse(401, JSONstringify(Envelope(FALSE, "invalid token", <<>>))),
     HttpResponse(500, <<>>),
     FetchFails}

-----------------------------------------------------------------------------
(* Initial states.                                                         *)

InitCommon ==
    /\ currentUser = NoUser
    /\ idToken = [u \in Users |-> "tokenA"]
    /\ pc = [c \in Calls |-> "idle"]
    /\ user = [c \in Calls |-> NoUser]
    /\ token = [c \in Calls |-> Undefined]
    /\ tokenSource = [c \in Calls |-> "none"]
    /\ providerGave = [c \in Calls |-> <<>>]
    /\ sent = [c \in Calls |-> <<>>]
    /\ response = [c \in Calls |-> NoResponse]
    /\ result = [c \in Calls |-> NoResult]
    /\ log = [c \in Calls |-> <<>>]

\* One call, any public method, any behaviour of the transport, the base
\* URL configured or not.
Init ==
    /\ InitCommon
    /\ \E e \in EnvValues : baseURL = API_BASE_URL(e)
    /\ transport \in AllTransports
    /\ \E inv \in AllInvocations :
          pending = [c \in Calls |-> IF c = 1 THEN inv ELSE NoCall]

\* MaxCalls calls that may overlap in any way, against the default base URL.
InitConc ==
    /\ InitCommon
    /\ baseURL = API_BASE_URL(Undefined)
    /\ transport \in ConcTransports
    /\ pending \in [Calls -> ConcInvocations]

-----------------------------------------------------------------------------
(* The identity provider's events.                                         *)

SignIn(u) ==
    /\ currentUser # u
    /\ currentUser' = u
    /\ \E t \in Tokens : idToken' = [idToken EXCEPT ![u] = t]
    /\ UNCHANGED <<transport, baseURL, pending, pc, user, token, tokenSource,
                   providerGave, sent, response, result, log>>

SignOut ==
    /\ currentUser # NoUser
    /\ currentUser' = NoUser
    /\ UNCHANGED <<idToken, transport, baseURL, pending, pc, user, token, tokenSource,
                   providerGave, sent, response, result, log>>

TokenRefresh(u) ==
    /\ \E t \in Tokens \ {idToken[u]} : idToken' = [idToken EXCEPT ![u] = t]
    /\ UNCHANGED <<currentUser, transport, baseURL, pending, pc, user, token,
                   tokenSource, providerGave, sent, response, result, log>>

-----------------------------------------------------------------------------
(* A call, from its invocation to the settlement of its promise.           *)

Args(c) == PublicCall(pending[c])

\* The public method runs makeRequest up to `await this.getAuthToken()`;
\* getAuthToken reads auth.currentUser and either returns null at once or
\* suspends in `await user.getIdToken()`.
Invoke(c) ==
    /\ pc[c] = "idle"
    /\ pending[c] # NoCall
    /\ IF currentUser = NoUser
       THEN /\ token' = [token EXCEPT ![c] = GetAuthTokenNoUser]
            /\ tokenSource' = [tokenSource EXCEPT ![c] = "noSession"]
            /\ pc' = [pc EXCEPT ![c] = "awaitAuthToken"]
            /\ UNCHANGED user
       ELSE /\ user' = [user EXCEPT ![c] = currentUser]
            /\ pc' = [pc EXCEPT ![c] = "awaitIdToken"]
            /\ UNCHANGED <<token, tokenSource>>
    /\ UNCHANGED <<currentUser, idToken, transport, baseURL, pending, providerGave,
                   sent, response, result, log>>

\* user.getIdToken() settles: with the provider's token for that user, or
\* with an error, which getAuthToken catches, logs and turns into null.
IdTokenSettle(c) ==
    /\ pc[c] = "awaitIdToken"
    /\ \/ /\ token' = [token EXCEPT ![c] = GetAuthTokenResolved(idToken[user[c]])]
          /\ tokenSource' = [tokenSource EXCEPT ![c] = "token"]
          /\ providerGave' = [providerGave EXCEPT ![c] = <<idToken[user[c]]>>]
          /\ UNCHANGED log
       \/ /\ token' = [token EXCEPT ![c] = GetAuthTokenCaught.value]
          /\ tokenSource' = [tokenSource EXCEPT ![c] = "providerError"]
          /\ log' = [log EXCEPT ![c] = @ \o GetAuthTokenCaught.log]
          /\ UNCHANGED providerGave
    /\ pc' = [pc EXCEPT ![c] = "awaitAuthToken"]
    /\ UNCHANGED <<currentUser, idToken, transport, baseURL, pending, user, sent,
                   response, result>>

\* A client that kept the first token any call obtained and reused it.
CachedToken(c) ==
    LET holders == {d \in Calls : tokenSource[d] = "token"}
    IN  IF holders = {} THEN token[c]
        ELSE token[CHOOSE d \in holders : \A e \in holders : d <= e]

\* The token makeRequest puts in the header: its own local `token`.
RequestToken(c) == token[c]

\* makeRequest resumes with the token, builds the headers and calls fetch.
IssueRequest(c) ==
    /\ pc[c] = "awaitAuthToken"
    /\ sent' = [sent EXCEPT ![c] =
                   Append(@, FetchRequest(Args(c).endpoint, Args(c).options, RequestToken(c)))]
    /\ pc' = [pc EXCEPT ![c] = "awaitFetch"]
    /\ UNCHANGED <<currentUser, idToken, transport, baseURL, pending, user, token,
                   tokenSource, providerGave, response, result, log>>

\* The catch block of makeRequest, entered with error e.
Caught(c, e) ==
    LET h == Catch(Args(c).endpoint, e)
    IN  /\ pc' = [pc EXCEPT ![c] = h.pc]
        /\ result' = [result EXCEPT ![c] = h.result]
        /\ log' = [log EXCEPT ![c] = @ \o h.log]

\* fetch settles: it rejects (network failure), or it resolves with a
\* response and makeRequest suspends in `await response.json()`.
FetchSettle(c) ==
    /\ pc[c] = "awaitFetch"
    /\ IF transport.kind = "networkError"
       THEN /\ Caught(c, NetworkError)
            /\ UNCHANGED response
       ELSE /\ response' = [response EXCEPT ![c] = transport]
            /\ pc' = [pc EXCEPT ![c] = "awaitJson"]
            /\ UNCHANGED <<result, log>>
    /\ UNCHANGED <<currentUser, idToken, transport, baseURL, pending, user, token,
                   tokenSource, providerGave, sent>>

\* response.json() settles, and the rest of the try block runs.
JsonSettle(c) ==
    /\ pc[c] = "awaitJson"
    /\ LET r == AfterJson(response[c].status, response[c].body)
       IN  IF r.threw
           THEN Caught(c, r.error)
           ELSE /\ result' = [result EXCEPT ![c] = Resolved(r.value)]
                /\ pc' = [pc EXCEPT ![c] = "done"]
                /\ UNCHANGED log
    /\ UNCHANGED <<currentUser, idToken, transport, baseURL, pending, user, token,
                   tokenSource, providerGave, sent, response>>

Next ==
    \/ \E u \in Users : SignIn(u)
    \/ SignOut
    \/ \E u \in Users : TokenRefresh(u)
    \/ \E c \in Calls : Invoke(c)
    \/ \E c \in Calls : IdTokenSettle(c)
    \/ \E c \in Calls : IssueRequest(c)
    \/ \E c \in Calls : FetchSettle(c)
    \/ \E c \in Calls : JsonSettle(c)

Spec == Init /\ [][Next]_vars

SpecConc == InitConc /\ [][Next]_vars

-----------------------------------------------------------------------------
(* Properties.                                                             *)

HasAuthorization(req) == "Authorization" \in DOMAIN req.headers

Settled(c) == pc[c] = "done"

Is2xx(status) == status \in 200..299

RequestFailedEntry(c) == "API request failed for " \o Args(c).endpoint \o ":"

\* C1: when no token can be obtained (no current session, or getIdToken
\* raised), the call goes on to issue its request, every request it issues
\* has no Authorization header, and the call never fails before its request
\* was issued.
C1_NoTokenStillProceeds ==
    \A c \in Calls :
        /\ tokenSource[c] \in {"noSession", "providerError"} =>
              /\ token[c] = JNull
              /\ sent[c] = <<>> => pc[c] = "awaitAuthToken" /\ result[c] = NoResult
              /\ \A i \in 1..Len(sent[c]) : ~HasAuthorization(sent[c][i])
        /\ result[c].state = "rejected" => sent[c] # <<>>

C1_Witness ==
    \E c \in Calls :
        /\ tokenSource[c] = "providerError"
        /\ pending[c].op = "getProfile"
        /\ Len(sent[c]) = 1
        /\ ~HasAuthorization(sent[c][1])
        /\ result[c].state = "resolved"

\* C2 as stated: for every token value the provider returns, the request's
\* Authorization header is present and equals "Bearer " followed by the token.
C2_BearerForEveryToken ==
    \A c \in Calls : \A i \in 1..Len(sent[c]) :
        providerGave[c] # <<>> =>
            /\ HasAuthorization(sent[c][i])
            /\ sent[c][i].headers["Authorization"] = "Bearer " \o providerGave[c][1]

\* C2 amended: for every non-empty token the provider returns, the header
\* is present and equals "Bearer " followed by the token; for the empty
\* token and when no token was obtained there is no Authorization header.
C2_BearerForNonEmptyToken ==
    \A c \in Calls : \A i \in 1..Len(sent[c]) :
        IF providerGave[c] # <<>> /\ providerGave[c][1] # ""
        THEN /\ HasAuthorization(sent[c][i])
             /\ sent[c][i].headers["Authorization"] = "Bearer " \o providerGave[c][1]
        ELSE ~HasAuthorization(sent[c][i])

C2_Witness ==
    \E c \in Calls :
        /\ providerGave[c] = <<"tokenB">>
        /\ Len(sent[c]) = 1
        /\ HasAuthorization(sent[c][1])
        /\ sent[c][1].headers["Authorization"] = "Bearer tokenB"
        /\ sent[c][1].headers["Content-Type"] = "application/json"

\* C3: a 2xx response whose body is a serialized envelope makes the call
\* resolve with exactly that envelope, whatever its success flag.
C3_EnvelopeVerbatim ==
    \A c \in Calls : \A e \in Envelopes :
        (/\ Settled(c)
         /\ response[c].kind = "response"
         /\ Is2xx(response[c].status)
         /\ response[c].body = JSONstringify(e))
        => result[c] = Resolved(e)

C3_Witness ==
    \E c \in Calls :
        /\ Settled(c)
        /\ response[c].status = 200
        /\ response[c].body = JSONstringify(Envelope(FALSE, "invalid token",
                                                     <<Member("error", JStr("E_AUTH"))>>))
        /\ result[c].state = "resolved"
        /\ GetProp(result[c].value, "success").value = JBool(FALSE)
        /\ Len(result[c].value.f) = 4

\* C4: a non-2xx response whose body is an envelope with a non-empty
\* message makes the call reject with an error carrying that message.
C4_RejectsWithEnvelopeMessage ==
    \A c \in Calls : \A e \in Envelopes :
        (/\ Settled(c)
         /\ response[c].kind = "response"
         /\ ~Is2xx(response[c].status)
         /\ response[c].body = JSONstringify(e)
         /\ GetProp(e, "message").value.v # "")
        => /\ result[c].state = "rejected"
           /\ result[c].error.message = GetProp(e, "message").value.v

C4_Witness ==
    \E c \in Calls :
        /\ Settled(c)
        /\ response[c].status = 401
        /\ result[c].state = "rejected"
        /\ result[c].error = Error("Error", "invalid token")

\* C5 as stated: a non-2xx response whose body cannot be parsed as JSON
\* makes the call reject with the fallback message built from the status.
C5_UnparseableGivesStatusFallback ==
    \A c \in Calls :
        (/\ Settled(c)
         /\ response[c].kind = "response"
         /\ ~Is2xx(response[c].status)
         /\ ~JSONparse(response[c].body).ok)
        => /\ result[c].state = "rejected"
           /\ result[c].error.message =
                 "HTTP error! status: " \o ToString(response[c].status)

\* C6: every call hands exactly one request to fetch: none before its
\* token acquisition has ended, one from then on, never a second one; and
\* a failed call (transport error, unparseable body, non-2xx status) is
\* settled as a rejection.
C6_ExactlyOneRequest ==
    \A c \in Calls :
        /\ Len(sent[c]) <= 1
        /\ pc[c] \in {"awaitFetch", "awaitJson", "done"} <=> Len(sent[c]) = 1
        /\ (Settled(c) /\ (\/ transport.kind = "networkError"
                           \/ ~JSONparse(transport.body).ok
                           \/ ~Is2xx(transport.status)))
           => result[c].state = "rejected"

C6_Witness ==
    /\ \A c \in Calls : Settled(c) /\ Len(sent[c]) = 1 /\ result[c].state = "rejected"
    /\ \A c, d \in Calls : pending[c] = pending[d]
    /\ transport.kind = "networkError"

\* C7: the endpoint table.
EndpointTable ==
    [healthCheck |-> [method |-> "GET", path |-> "/health", body |-> FALSE],
     signUp |-> [method |-> "POST", path |-> "/api/auth/signup", body |-> TRUE],
     createSocialUserProfile |->
         [method |-> "POST", path |-> "/api/auth/create-social-profile", body |-> TRUE],
     verifyToken |-> [method |-> "POST", path |-> "/api/auth/verify-token", body |-> FALSE],
     resetPassword |-> [method |-> "POST", path |-> "/api/auth/reset-password", body |-> TRUE],
     getProfile |-> [method |-> "GET", path |-> "/api/auth/profile", body |-> FALSE],
     updateProfile |-> [method |-> "PATCH", path |-> "/api/auth/profile", body |-> TRUE],
     refreshToken |-> [method |-> "POST", path |-> "/api/auth/refresh-token", body |-> FALSE],
     deleteAccount |-> [method |-> "DELETE", path |-> "/api/auth/account", body |-> FALSE]]

IsDefined(m) == m.val.k # "undefined"

\* What the caller handed over: the fields it set, in its order (the email
\* as the one field `email` for resetPassword).
CallerPayload(inv) ==
    IF inv.op = "resetPassword"
    THEN JObj(<<Member("email", inv.arg)>>)
    ELSE JObj(SelectSeq(inv.arg.f, IsDefined))

\* C7: each request goes to the configured base URL followed by the path,
\* with the method, that the table gives for its operation; its body parses back to exactly the caller's payload for the
\* four operations that take one, and is absent for the others.
C7_EndpointTable ==
    \A c \in Calls : \A i \in 1..Len(sent[c]) :
        LET req == sent[c][i]
            row == EndpointTable[pending[c].op]
        IN  /\ req.url = baseURL \o row.path
            /\ baseURL \in {"http://localhost:8000", "https://api.example.com"}
            /\ req.method = row.method
            /\ IF row.body
               THEN /\ Len(req.body) = 1
                    /\ JSONparse(req.body[1]) = ParseOk(CallerPayload(pending[c]))
               ELSE req.body = <<>>

C7_Witness ==
    \E c \in Calls :
        /\ pending[c] = Invocation("updateProfile", FirstNameOnly)
        /\ Len(sent[c]) = 1
        /\ sent[c][1].method = "PATCH"
        /\ sent[c][1].url = "https://api.example.com/api/auth/profile"
        /\ sent[c][1].body = <<(<<P("{"), S("firstName"), P(":"), S("A"), P("}")>>)>>

\* C8: a call is resolved only if its response's status was 2xx; so an
\* envelope returned with success = true came from a 2xx response.
C8_ResolvedOnly2xx ==
    \A c \in Calls :
        result[c].state = "resolved" =>
            /\ response[c].kind = "response"
            /\ response[c].status >= 200
            /\ response[c].status <= 299

C8_Witness ==
    \E c \in Calls :
        /\ result[c].state = "resolved"
        /\ GetProp(result[c].value, "success").value = JBool(TRUE)
        /\ response[c].status = 200

\* C9: the Authorization header of every request is the one built from the
\* token the provider gave to that very call (none if it gave none, as for
\* a call started without a session), whatever the provider's session and
\* token are now and whatever tokens other calls hold; the acquisition has
\* ended before the request is issued.
C9_HeaderFromOwnAcquisition ==
    \A c \in Calls :
        /\ \A i \in 1..Len(sent[c]) :
              /\ tokenSource[c] # "none"
              /\ IF providerGave[c] # <<>> /\ providerGave[c][1] # ""
                 THEN /\ HasAuthorization(sent[c][i])
                      /\ sent[c][i].headers["Authorization"] = "Bearer " \o providerGave[c][1]
                 ELSE ~HasAuthorization(sent[c][i])
        /\ tokenSource[c] = "noSession" => providerGave[c] = <<>>
        /\ tokenSource[c] = "token" <=> providerGave[c] # <<>>

C9_Witness ==
    \E c, d \in Calls :
        /\ Len(sent[c]) = 1 /\ Len(sent[d]) = 1
        /\ HasAuthorization(sent[c][1])
        /\ sent[c][1].headers["Authorization"] = "Bearer tokenA"
        /\ tokenSource[d] = "noSession"
        /\ ~HasAuthorization(sent[d][1])
        /\ currentUser # NoUser
        /\ idToken[currentUser] = "tokenB"

\* C10: a call resolves if and only if fetch gave a response, its body
\* parsed as JSON and its status was 2xx; a 2xx response whose body does not
\* parse makes the call reject with the parser's error, after makeRequest
\* logged the failure once.
C10_ParseBeforeStatus ==
    \A c \in Calls :
        Settled(c) =>
            /\ result[c].state \in {"resolved", "rejected"}
            /\ result[c].state = "resolved" <=>
                  /\ response[c].kind = "response"
                  /\ JSONparse(response[c].body).ok
                  /\ Is2xx(response[c].status)
            /\ (/\ response[c].kind = "response"
                /\ Is2xx(response[c].status)
                /\ ~JSONparse(response[c].body).ok)
               => /\ result[c] = Rejected(JsonSyntaxError)
                  /\ log[c][Len(log[c])] = RequestFailedEntry(c)
                  /\ Len(SelectSeq(log[c], LAMBDA l : l = RequestFailedEntry(c))) = 1
                  /\ Len(log[c]) = IF tokenSource[c] = "providerError" THEN 2 ELSE 1

C10_Witness ==
    \E c \in Calls :
        /\ pending[c].op = "deleteAccount"
        /\ Settled(c)
        /\ response[c].status = 204
        /\ response[c].body = <<>>
        /\ result[c] = Rejected(JsonSyntaxError)
        /\ log[c] = <<"API request failed for /api/auth/account:">>

====
